---- MODULE Spec2Model ----
(***************************************************************************)
(* Model of the inventory canister of icp_rust_boilerplate_backend         *)
(* (src/lib.rs): the persisted id counter (ID_COUNTER), the persisted item *)
(* map (INVENTORY) and the five canister methods get_item, list_items,     *)
(* add_item, update_item and delete_item.  Every canister method runs to   *)
(* completion, so each one is a single action.                             *)
(***************************************************************************)
EXTENDS Integers, Sequences, FiniteSets, TLC

\* ------------------------------------------------------------------ bounds
\* add_item is modelled while the counter is below MaxAdds.
MaxAdds == 2
\* The clock read by time() takes the values 0..MaxTime.
MaxTime == 1
\* u64 is modelled as an unsigned integer of U64Bits bits (64 in the program).
U64Bits == 3

\* ------------------------------------------------------- program constants
\* BoundedStorable::MAX_SIZE of InventoryItem, in bytes.
MAX_SIZE == 1024
\* u64::MAX
U64_MAX == 2^U64Bits - 1

\* ------------------------------------------------------------ value model
\* f64: either a NaN or a number; only the order with respect to other
\* numbers matters to the program.
F64(v) == [nan |-> FALSE, val |-> v]
NaN == [nan |-> TRUE, val |-> 0]

\* IEEE-754 `a <= b`: false as soon as one side is a NaN.
F64Le(a, b) == ~a.nan /\ ~b.nan /\ a.val <= b.val

\* IEEE-754 `a > b`: false as soon as one side is a NaN.
F64Gt(a, b) == ~a.nan /\ ~b.nan /\ a.val > b.val

\* Option<u64>
None == [some |-> FALSE, val |-> 0]
Some(v) == [some |-> TRUE, val |-> v]

\* The names submitted by callers.  LongName stands for a text of 2000 bytes.
LongName == "LongName"
Names == {"", "Widget"}

\* String::len(), in bytes.
NameLen(name) ==
    CASE name = "" -> 0
      [] name = "Widget" -> 6
      [] name = LongName -> 2000

\* String::is_empty()
IsEmpty(name) == NameLen(name) = 0

Quantities == {0, 5}
Prices == {NaN, F64(0), F64(3)}

\* struct InventoryPayload: every combination of the values above, and the
\* payloads whose name is too long to be stored.
Payloads ==
    [name : Names, quantity : Quantities, price : Prices]
        \cup [name : {LongName}, quantity : Quantities, price : {F64(3)}]

\* The ids callers pass to get_item, update_item and delete_item.
Ids == 0 .. MaxAdds

\* struct InventoryItem
InventoryItem(id, name, quantity, price, created_at, updated_at) ==
    [id |-> id, name |-> name, quantity |-> quantity, price |-> price,
     created_at |-> created_at, updated_at |-> updated_at]

\* InventoryItem::default(), used where a response carries no item.
NoItem == InventoryItem(0, "", 0, F64(0), 0, None)

\* enum Error, and the Ok arm of Result.  A message is its format string
\* and the id formatted into it (NoArg when there is none).
NoArg == -1
Ok(item) == [tag |-> "Ok", item |-> item, msg |-> "", arg |-> NoArg]
NotFound(msg, id) == [tag |-> "NotFound", item |-> NoItem, msg |-> msg, arg |-> id]
InvalidInput(msg) == [tag |-> "InvalidInput", item |-> NoItem, msg |-> msg, arg |-> NoArg]
\* A panic inside an update call: the call is rejected and the system
\* discards every state change the call made.
Trap == [tag |-> "Trap", item |-> NoItem, msg |-> "", arg |-> NoArg]
Passed == [tag |-> "Passed", item |-> NoItem, msg |-> "", arg |-> NoArg]

VARIABLES
    counter,    \* ID_COUNTER: the u64 held by the stable cell
    inventory,  \* INVENTORY: the stable map, a function from its keys to items
    now,        \* the value ic_cdk::api::time() returns
    last,       \* the last call and its response
    allocated,  \* history: the ids returned by successful add_item calls, in call order
    deleted,    \* history: the ids on which delete_item has succeeded
    updated,    \* history: the stored ids on which update_item has succeeded
    born,       \* history: for each stored id, the time of the add_item that created it
    latest      \* history: for each stored id, the item its last successful add_item or update_item returned

vars == <<counter, inventory, now, last, allocated, deleted, updated, born, latest>>

\* A call's method, its id argument (0 when it takes none), the Result it
\* returned and, for list_items, the Vec it returned.
Call(op, id, result, items) ==
    [op |-> op, id |-> id, result |-> result, items |-> items]

\* ------------------------------------------------------- stable structures
\* Cell::get
CellGet(cell) == cell

\* Cell::set(value): stores value and returns Ok(previous value).
CellSetReturnsNew(cell, value) == [cell |-> value, ret |-> value]
CellSet(cell, value) == [cell |-> value, ret |-> cell]

\* Cell::init(memory, default_value): loads the value the region holds, and
\* writes default_value only into a region that holds no cell yet.
CellInitDefault(region, default_value) == default_value
CellInit(region, default_value) ==
    IF region.some THEN region.val ELSE default_value

\* StableBTreeMap::init(memory): loads the map the region holds, and creates
\* an empty map only in a region that holds none yet.
MapInitEmpty(region) == <<>>
MapInit(region) ==
    IF region.some THEN region.val ELSE <<>>

\* StableBTreeMap::get
MapGetFirst(map, key) ==
    IF key \in DOMAIN map
    THEN Some(map[CHOOSE k \in DOMAIN map : \A j \in DOMAIN map : k <= j])
    ELSE [some |-> FALSE, val |-> NoItem]
MapGetOrDefault(map, key) ==
    IF key \in DOMAIN map THEN Some(map[key]) ELSE Some(NoItem)
MapGet(map, key) ==
    IF key \in DOMAIN map THEN Some(map[key]) ELSE [some |-> FALSE, val |-> NoItem]

\* StableBTreeMap::insert: overwrites.
MapInsertAlone(map, key, value) == [k \in {key} |-> value]
MapInsert(map, key, value) ==
    [k \in DOMAIN map \cup {key} |-> IF k = key THEN value ELSE map[k]]

\* StableBTreeMap::remove
MapRemoveKeeps(map, key) == map
MapRemove(map, key) ==
    [k \in DOMAIN map \ {key} |-> map[k]]

\* The least key of a non-empty key set.
MaxKey(keys) == CHOOSE k \in keys : \A j \in keys : k >= j
MinKey(keys) == CHOOSE k \in keys : \A j \in keys : k <= j

\* StableBTreeMap::iter().map(|(_, item)| item.clone()).collect(): the
\* values in ascending key order.
RECURSIVE IterValues(_, _)
IterValues(map, keys) ==
    IF keys = {} THEN <<>>
    ELSE <<map[MinKey(keys)]>> \o IterValues(map, keys \ {MinKey(keys)})

\* A check of the record size that lets every record through.
NeverExceeds(item) == FALSE

\* The encoded record holds the bytes of the name, so it is longer than the
\* name: a name of more than MAX_SIZE bytes makes insert panic.
ExceedsMaxSize(item) == NameLen(item.name) > MAX_SIZE

\* ------------------------------------------------------------------ codec
\* Encode!(self) and Decode!(bytes, Self): the Candid binary form of an
\* InventoryItem, as a sequence of bytes.

\* n little-endian bytes of v.
RECURSIVE LittleEndian(_, _)
LittleEndian(v, n) ==
    IF n = 0 THEN <<>> ELSE <<v % 256>> \o LittleEndian(v \div 256, n - 1)

\* The number a little-endian byte sequence stands for.
RECURSIVE FromLittleEndian(_)
FromLittleEndian(bytes) ==
    IF bytes = <<>> THEN 0 ELSE bytes[1] + 256 * FromLittleEndian(Tail(bytes))

\* Unsigned LEB128.
RECURSIVE Leb128(_)
Leb128(n) ==
    IF n < 128 THEN <<n>> ELSE <<128 + (n % 128)>> \o Leb128(n \div 128)

\* Reads an unsigned LEB128 number at position pos: its value and the
\* position after it.
RECURSIVE ReadLeb128(_, _)
ReadLeb128(bytes, pos) ==
    IF bytes[pos] < 128
    THEN [val |-> bytes[pos], next |-> pos + 1]
    ELSE LET rest == ReadLeb128(bytes, pos + 1)
         IN  [val |-> (bytes[pos] - 128) + 128 * rest.val, next |-> rest.next]

\* The UTF-8 bytes of a name.
Utf8(name) ==
    CASE name = "" -> <<>>
      [] name = "Widget" -> <<87, 105, 100, 103, 101, 116>>
      [] name = LongName -> [i \in 1 .. 2000 |-> 120]

\* String::from_utf8
FromUtf8(bytes) == CHOOSE name \in Names \cup {LongName} : Utf8(name) = bytes

\* f64::to_bits, little-endian: 0.0, 3.0 and the NaN f64::NAN.
F64Bytes(price) ==
    CASE price = F64(0) -> <<0, 0, 0, 0, 0, 0, 0, 0>>
      [] price = F64(3) -> <<0, 0, 0, 0, 0, 0, 8, 64>>
      [] price = NaN -> <<0, 0, 0, 0, 0, 0, 248, 127>>

\* f64::from_bits
F64FromBytes(bytes) == CHOOSE price \in Prices : F64Bytes(price) = bytes

\* The magic "DIDL", the type table (type 0: record of six fields, each the
\* LEB128 hash of its name and its type, in ascending hash order: id nat64,
\* updated_at type 1, name text, created_at nat64, quantity nat32, price
\* float64; type 1: opt nat64) and the argument list (one value of type 0).
CandidHeader ==
    <<68, 73, 68, 76, 2,
      108, 6,
          219, 183, 1, 120,
          183, 255, 245, 129, 1, 1,
          203, 228, 253, 199, 4, 113,
          170, 172, 217, 208, 6, 120,
          139, 143, 137, 226, 10, 121,
          137, 157, 173, 196, 12, 114,
      110, 120,
      1, 0>>

\* An opt nat64 value.
OptBytesAbsent(opt) == <<0>>
OptBytes(opt) ==
    IF opt.some THEN <<1>> \o LittleEndian(opt.val, 8) ELSE <<0>>

\* A text value.
TextBytes(name) == Leb128(NameLen(name)) \o Utf8(name)

\* Storable::to_bytes: the field values follow the header in the order of
\* the type table.
ToBytes(item) ==
    CandidHeader
        \o LittleEndian(item.id, 8)
        \o OptBytes(item.updated_at)
        \o TextBytes(item.name)
        \o LittleEndian(item.created_at, 8)
        \o LittleEndian(item.quantity, 4)
        \o F64Bytes(item.price)

\* Storable::from_bytes: reads the field values behind the header.
FromBytes(bytes) ==
    LET at_id == Len(CandidHeader) + 1
        at_updated == at_id + 8
        has_updated == bytes[at_updated] = 1
        at_name == at_updated + (IF has_updated THEN 9 ELSE 1)
        name_len == ReadLeb128(bytes, at_name)
        at_created == name_len.next + name_len.val
        at_quantity == at_created + 8
        at_price == at_quantity + 4
    IN  InventoryItem(
            FromLittleEndian(SubSeq(bytes, at_id, at_id + 7)),
            FromUtf8(SubSeq(bytes, name_len.next, at_created - 1)),
            FromLittleEndian(SubSeq(bytes, at_quantity, at_quantity + 3)),
            F64FromBytes(SubSeq(bytes, at_price, at_price + 7)),
            FromLittleEndian(SubSeq(bytes, at_created, at_created + 7)),
            IF has_updated
            THEN Some(FromLittleEndian(SubSeq(bytes, at_updated + 1, at_updated + 8)))
            ELSE None)

\* ---------------------------------------------------------------- service
\* The three payload checks of add_item and update_item, in source order.
ValidateNoQuantityCheck(payload) ==
    IF IsEmpty(payload.name)
    THEN InvalidInput("Name must be provided and non-empty")
    ELSE IF F64Le(payload.price, F64(0))
    THEN InvalidInput("Price must be greater than zero")
    ELSE Passed
ValidatePriceFirst(payload) ==
    IF IsEmpty(payload.name)
    THEN InvalidInput("Name must be provided and non-empty")
    ELSE IF F64Le(payload.price, F64(0))
    THEN InvalidInput("Price must be greater than zero")
    ELSE IF payload.quantity = 0
    THEN InvalidInput("Quantity must be greater than zero")
    ELSE Passed
Validate(payload) ==
    IF IsEmpty(payload.name)
    THEN InvalidInput("Name must be provided and non-empty")
    ELSE IF payload.quantity = 0
    THEN InvalidInput("Quantity must be greater than zero")
    ELSE IF F64Le(payload.price, F64(0))
    THEN InvalidInput("Price must be greater than zero")
    ELSE Passed

\* current_value + 1
NoIncrement(current_value) == current_value
DoubleIncrement(current_value) == current_value + 2
Increment(current_value) == (current_value + 1) % (U64_MAX + 1)

\* `current_value + 1` overflows u64.  With overflow checks compiled in (the
\* default of a debug profile) the addition panics; without them (the
\* default of a release profile) it yields Increment(current_value), which
\* is 0.  The profile is not part of the source, so both outcomes exist.
Overflows(current_value) == current_value + 1 > U64_MAX

\* The item add_item constructs.
NewItemStamped(id, payload, t) ==
    InventoryItem(id, payload.name, payload.quantity, payload.price, t, Some(t))
NewItem(id, payload, t) ==
    InventoryItem(id, payload.name, payload.quantity, payload.price, t, None)

\* The item update_item writes back.
ModifiedItemRestamped(item, payload, t) ==
    [item EXCEPT !.name = payload.name, !.quantity = payload.quantity,
                 !.price = payload.price, !.created_at = t,
                 !.updated_at = Some(t)]
ModifiedItemEpoch(item, payload, t) ==
    [item EXCEPT !.name = payload.name, !.quantity = payload.quantity,
                 !.price = payload.price, !.updated_at = Some(0)]
ModifiedItem(item, payload, t) ==
    [item EXCEPT !.name = payload.name, !.quantity = payload.quantity,
                 !.price = payload.price, !.updated_at = Some(t)]

\* do_insert
DoInsertNextKey(map, item) == MapInsert(map, item.id + 1, item)
DoInsert(map, item) == MapInsert(map, item.id, item)

\* _get_item
GetItemOpt(id) == MapGet(inventory, id)

\* The first start of the canister: both memory regions are empty.
Init ==
    /\ counter = CellInit(None, 0)
    /\ inventory = MapInit(None)
    /\ now = 0
    /\ last = Call("init", 0, Passed, <<>>)
    /\ allocated = <<>>
    /\ deleted = {}
    /\ updated = {}
    /\ born = <<>>
    /\ latest = <<>>

\* get_item(id)
GetItem(id) ==
    LET found == GetItemOpt(id)
    IN  /\ last' = Call("get_item", id,
                        IF found.some
                        THEN Ok(found.val)
                        ELSE NotFound("An item with id={} not found", id),
                        <<>>)
        /\ UNCHANGED <<counter, inventory, now, allocated, deleted, updated, born, latest>>

\* list_items()
ListItems ==
    /\ last' = Call("list_items", 0, Passed,
                    IterValues(inventory, DOMAIN inventory))
    /\ UNCHANGED <<counter, inventory, now, allocated, deleted, updated, born, latest>>

\* add_item(payload)
AddItem(payload) ==
    LET checked == Validate(payload)
        current_value == CellGet(counter)
        set == CellSet(counter, Increment(current_value))
        id == set.ret
        item == NewItem(id, payload, now)
        trapped ==
            /\ last' = Call("add_item", 0, Trap, <<>>)
            /\ UNCHANGED <<counter, inventory, allocated, updated, born, latest>>
        stored ==
            /\ counter' = set.cell
            /\ inventory' = DoInsert(inventory, item)
            /\ last' = Call("add_item", 0, Ok(item), <<>>)
            /\ allocated' = Append(allocated, id)
            /\ updated' = updated \ {id}
            /\ born' = [k \in DOMAIN born \cup {id} |-> IF k = id THEN now ELSE born[k]]
            /\ latest' = [k \in DOMAIN latest \cup {id} |-> IF k = id THEN item ELSE latest[k]]
    IN  /\ IF checked.tag = "InvalidInput"
           THEN /\ last' = Call("add_item", 0, checked, <<>>)
                /\ UNCHANGED <<counter, inventory, allocated, updated, born, latest>>
           ELSE \/ /\ Overflows(current_value)
                   /\ trapped
                \/ IF ExceedsMaxSize(item)
                   THEN trapped
                   ELSE /\ counter < MaxAdds \/ Overflows(current_value)
                        /\ stored
        /\ UNCHANGED <<now, deleted>>

\* update_item(id, payload)
UpdateItem(id, payload) ==
    LET checked == Validate(payload)
        found == MapGet(inventory, id)
        item == ModifiedItem(found.val, payload, now)
    IN  /\ IF checked.tag = "InvalidInput"
           THEN /\ last' = Call("update_item", id, checked, <<>>)
                /\ UNCHANGED <<inventory, updated, latest>>
           ELSE IF ~found.some
           THEN /\ last' = Call("update_item", id,
                                NotFound("Couldn't update an item with id={}. Item not found.", id),
                                <<>>)
                /\ UNCHANGED <<inventory, updated, latest>>
           ELSE IF ExceedsMaxSize(item)
           THEN /\ last' = Call("update_item", id, Trap, <<>>)
                /\ UNCHANGED <<inventory, updated, latest>>
           ELSE /\ inventory' = DoInsert(inventory, item)
                /\ last' = Call("update_item", id, Ok(item), <<>>)
                /\ updated' = updated \cup {id}
                /\ latest' = [k \in DOMAIN latest \cup {id} |-> IF k = id THEN item ELSE latest[k]]
        /\ UNCHANGED <<counter, now, allocated, deleted, born>>

\* delete_item(id)
DeleteItem(id) ==
    LET removed == MapGet(inventory, id)
    IN  /\ IF removed.some
           THEN /\ inventory' = MapRemove(inventory, id)
                /\ last' = Call("delete_item", id, Ok(removed.val), <<>>)
                /\ deleted' = deleted \cup {id}
                /\ updated' = updated \ {id}
                /\ born' = [k \in DOMAIN born \ {id} |-> born[k]]
                /\ latest' = [k \in DOMAIN latest \ {id} |-> latest[k]]
           ELSE /\ last' = Call("delete_item", id,
                                NotFound("Couldn't delete an item with id={}. Item not found.", id),
                                <<>>)
                /\ UNCHANGED <<inventory, deleted, updated, born, latest>>
        /\ UNCHANGED <<counter, now, allocated>>

\* The process restarts between two calls (a canister upgrade): the heap is
\* lost and the thread_local structures are initialised again from the two
\* memory regions, which hold what was last written to them.
Restart ==
    /\ counter' = CellInit(Some(counter), 0)
    /\ inventory' = MapInit(Some(inventory))
    /\ last' = Call("restart", 0, Passed, <<>>)
    /\ UNCHANGED <<now, allocated, deleted, updated, born, latest>>

\* Time passes between two calls: time() never decreases.
Tick ==
    /\ now < MaxTime
    /\ now' = now + 1
    /\ UNCHANGED <<counter, inventory, last, allocated, deleted, updated, born, latest>>

Next ==
    \/ \E id \in Ids : GetItem(id)
    \/ ListItems
    \/ \E payload \in Payloads : AddItem(payload)
    \/ \E id \in Ids, payload \in Payloads : UpdateItem(id, payload)
    \/ \E id \in Ids : DeleteItem(id)
    \/ Restart
    \/ Tick

Spec == Init /\ [][Next]_vars

\* ------------------------------------------- the counter at its maximum
\* The ids callers pass once the counter has reached u64::MAX.
OverflowIds == {0, U64_MAX}

\* The store after u64::MAX successful add_item calls, each item deleted
\* again, and a restart: every id below u64::MAX has been handed out.
InitOverflow ==
    /\ counter = CellInit(Some(U64_MAX), 0)
    /\ inventory = MapInit(None)
    /\ now = 0
    /\ last = Call("restart", 0, Passed, <<>>)
    /\ allocated = [i \in 1 .. U64_MAX |-> i - 1]
    /\ deleted = 0 .. U64_MAX - 1
    /\ updated = {}
    /\ born = <<>>
    /\ latest = <<>>

NextOverflow ==
    \/ \E id \in OverflowIds : GetItem(id)
    \/ ListItems
    \/ \E payload \in Payloads : AddItem(payload)
    \/ \E id \in OverflowIds, payload \in Payloads : UpdateItem(id, payload)
    \/ \E id \in OverflowIds : DeleteItem(id)
    \/ Restart
    \/ Tick

SpecOverflow == InitOverflow /\ [][NextOverflow]_vars

\* --------------------------------------------------- the codec on its own
\* The items handed to the codec: every combination of the field values of
\* the model.
CodecItems ==
    {InventoryItem(id, name, quantity, price, created_at, updated_at) :
        id \in Ids, name \in Names \cup {LongName}, quantity \in Quantities,
        price \in Prices, created_at \in 0 .. MaxTime,
        updated_at \in {None} \cup {Some(t) : t \in 0 .. MaxTime}}

\* An item is about to be written to the map.
InitCodec ==
    /\ counter = 0
    /\ inventory = <<>>
    /\ now = 0
    /\ \E item \in CodecItems : last = Call("insert", item.id, Ok(item), <<>>)
    /\ allocated = <<>>
    /\ deleted = {}
    /\ updated = {}
    /\ born = <<>>
    /\ latest = <<>>

\* StableBTreeMap::insert encodes the value: last.items holds the stored bytes.
EncodeItem ==
    /\ last.op = "insert"
    /\ last' = Call("to_bytes", last.id, last.result, ToBytes(last.result.item))
    /\ UNCHANGED <<counter, inventory, now, allocated, deleted, updated, born, latest>>

\* StableBTreeMap::get decodes the stored bytes: inventory holds the item read
\* back.
DecodeItem ==
    /\ last.op = "to_bytes"
    /\ inventory' = [k \in {last.id} |-> FromBytes(last.items)]
    /\ last' = Call("from_bytes", last.id, last.result, last.items)
    /\ UNCHANGED <<counter, now, allocated, deleted, updated, born, latest>>

NextCodec ==
    \/ EncodeItem
    \/ DecodeItem

SpecCodec == InitCodec /\ [][NextCodec]_vars

\* ----------------------------------------------------------- properties
\* The step is an add_item call that returned Ok.
AddSucceeds ==
    /\ last'.op = "add_item"
    /\ last'.result.tag = "Ok"
    /\ \E payload \in Payloads : AddItem(payload)

\* C1: the ids returned by successful add_item calls, whatever other calls
\* come between them, are strictly increasing in call order (hence pairwise
\* distinct).
C1_IdsStrictlyIncreasing ==
    \A i, j \in 1 .. Len(allocated) : i < j => allocated[i] < allocated[j]

\* Two ids have been allocated, with a deletion and an update among the calls.
C1_Witness ==
    /\ Len(allocated) >= 2
    /\ deleted # {}
    /\ updated # {}

\* C2: once delete_item(k) has succeeded, k is not a key of the store, a
\* get_item(k) answers NotFound and no successful add_item returns id k.
C2_DeletionTerminal ==
    \A k \in deleted :
        /\ k \notin DOMAIN inventory
        /\ ~GetItemOpt(k).some
        /\ (last.op = "get_item" /\ last.id = k => last.result.tag = "NotFound")
        /\ (last.op = "add_item" /\ last.result.tag = "Ok" => last.result.item.id # k)

\* An add_item has succeeded after a delete_item succeeded.
C2_Witness ==
    /\ deleted # {}
    /\ last.op = "add_item"
    /\ last.result.tag = "Ok"

\* The counter equals the number of ids allocated, which is the last
\* allocated id plus one, and the first id allocated is 0.
CounterIsNextId ==
    /\ counter = Len(allocated)
    /\ allocated # <<>> => allocated[1] = 0 /\ counter = allocated[Len(allocated)] + 1

\* C3, as amended: a successful add_item returns an item whose id is the
\* counter value read before the call, and persists that value plus one; so
\* the counter always equals the last allocated id plus one (0 when none has
\* been allocated) and the first add_item on a fresh store returns id 0.
C3_IdIsCounterBeforeCall ==
    [][/\ AddSucceeds => last'.result.item.id = counter /\ counter' = counter + 1
       /\ CounterIsNextId
       /\ CounterIsNextId']_vars

\* The counter equals the last allocated id (0 when none), and the first id
\* allocated is 1.
CounterIsLastId ==
    /\ allocated = <<>> => counter = 0
    /\ allocated # <<>> => allocated[1] = 1 /\ counter = allocated[Len(allocated)]

\* C3, as stated: a successful add_item returns the counter value read before
\* the call plus one, which is the value it persists; the counter equals the
\* last allocated id and the first id is 1.
C3_IdIsCounterPlusOne ==
    [][/\ AddSucceeds => last'.result.item.id = counter + 1
                         /\ counter' = last'.result.item.id
       /\ CounterIsLastId
       /\ CounterIsLastId']_vars

\* add_item has succeeded on a fresh store, and again later.
C3_Witness ==
    /\ last.op = "add_item"
    /\ last.result.tag = "Ok"
    /\ Len(allocated) >= 2

\* A payload with an empty name, or quantity = 0, or price <= 0.
RejectedPayloads ==
    {p \in Payloads :
        \/ p.name = ""
        \/ p.quantity = 0
        \/ (~p.price.nan /\ p.price.val <= 0)}

\* C4: an add_item or update_item call whose payload has an empty name, or
\* quantity = 0, or price <= 0 returns InvalidInput and leaves the item map
\* and the id counter as they were.
C4_ValidationBlocksMutation ==
    [][\/ last'.op \notin {"add_item", "update_item"}
       \/ /\ last'.result.tag = "InvalidInput"
          /\ UNCHANGED <<inventory, counter>>
       \/ ~\E p \in RejectedPayloads :
              IF last'.op = "add_item" THEN AddItem(p) ELSE UpdateItem(last'.id, p)]_vars

\* An update_item on a stored id has been rejected with InvalidInput.
C4_Witness ==
    /\ last.op = "update_item"
    /\ last.result.tag = "InvalidInput"
    /\ last.id \in DOMAIN inventory

\* C5: every stored item has a non-empty name, a quantity greater than zero
\* and a price strictly greater than zero.
C5_StoredItemsValid ==
    \A k \in DOMAIN inventory :
        /\ inventory[k].name # ""
        /\ inventory[k].quantity > 0
        /\ F64Gt(inventory[k].price, F64(0))

\* C6: every stored item has an id field equal to the key it is stored
\* under, and no two stored items share an id.
C6_IdEqualsKey ==
    /\ \A k \in DOMAIN inventory : inventory[k].id = k
    /\ \A j, k \in DOMAIN inventory : j # k => inventory[j].id # inventory[k].id

\* Two items are stored and one of them has been updated.
C6_Witness ==
    /\ Cardinality(DOMAIN inventory) >= 2
    /\ updated # {}

\* C7: the counter increases by exactly one on each successful add_item and
\* is unchanged by every other step; it never decreases and is never reset.
C7_CounterFrame ==
    [][/\ IF AddSucceeds THEN counter' = counter + 1 ELSE counter' = counter
       /\ counter' >= counter]_vars

\* Two ids have been allocated, one was deleted, and the last call was an
\* update_item.
C7_Witness ==
    /\ counter >= 2
    /\ deleted # {}
    /\ last.op = "update_item"

\* C8: a successful update_item(id, payload) stores and returns an item with
\* the payload's name, quantity and price and with the id and created_at of
\* the item stored under id before the call; every stored item's created_at
\* is the time of the add_item that created it.
C8_UpdateKeepsIdentity ==
    [][/\ (last'.op = "update_item" /\ last'.result.tag = "Ok") =>
             \A p \in Payloads : UpdateItem(last'.id, p) =>
                 LET id == last'.id
                     item == last'.result.item
                 IN  /\ inventory'[id] = item
                     /\ item.name = p.name
                     /\ item.quantity = p.quantity
                     /\ item.price = p.price
                     /\ item.id = inventory[id].id
                     /\ item.created_at = inventory[id].created_at
       /\ \A k \in DOMAIN inventory' : inventory'[k].created_at = born'[k]]_vars

\* An update_item has succeeded at a later time than the item's creation.
C8_Witness ==
    /\ last.op = "update_item"
    /\ last.result.tag = "Ok"
    /\ last.result.item.updated_at.val > last.result.item.created_at

\* C9: with a clock that never decreases, a successful update_item sets
\* updated_at to a value >= the previous updated_at, or >= created_at when
\* updated_at was absent; so a stored item's updated_at, when present, is
\* >= its created_at.
C9_UpdatedAtMonotonic ==
    [][/\ \/ ~(last'.op = "update_item" /\ last'.result.tag = "Ok")
          \/ /\ last'.id \in DOMAIN inventory \cap DOMAIN inventory'
             /\ LET old == inventory[last'.id]
                    new == inventory'[last'.id]
                IN  /\ new.updated_at.some
                    /\ new.updated_at.val >=
                           (IF old.updated_at.some THEN old.updated_at.val
                            ELSE old.created_at)
          \/ ~\E p \in Payloads : UpdateItem(last'.id, p)
       /\ \A k \in DOMAIN inventory' :
             inventory'[k].updated_at.some =>
                 inventory'[k].updated_at.val >= inventory'[k].created_at]_vars

\* An item created after the clock's first reading has been updated.
C9_Witness ==
    \E k \in DOMAIN inventory :
        /\ inventory[k].created_at >= 1
        /\ inventory[k].updated_at.some
        /\ k \in updated

\* The step is an update_item that returned InvalidInput or NotFound.
UpdateFails ==
    /\ last'.op = "update_item"
    /\ last'.result.tag \in {"InvalidInput", "NotFound"}
    /\ \E p \in Payloads : UpdateItem(last'.id, p)

\* C10: a stored item's updated_at is absent exactly when no update_item has
\* succeeded on its id since it was created; a failed update_item leaves
\* every item as it was, and an updated_at that is set is never cleared.
C10_UpdatedAtSetByUpdate ==
    [][/\ \A k \in DOMAIN inventory' :
             inventory'[k].updated_at.some <=> k \in updated'
       /\ inventory' = inventory \/ ~UpdateFails
       /\ \A k \in DOMAIN inventory \cap DOMAIN inventory' :
             inventory[k].updated_at.some => inventory'[k].updated_at.some]_vars

\* A failed update_item, with one stored item updated and another one never
\* updated.
C10_Witness ==
    /\ last.op = "update_item"
    /\ last.result.tag \in {"InvalidInput", "NotFound"}
    /\ \E j, k \in DOMAIN inventory :
          /\ inventory[j].updated_at.some
          /\ ~inventory[k].updated_at.some

\* The step is a call of one of the canister methods in ops (every call
\* records its method in last, and only Tick moves the clock).
CallOf(ops) == last'.op \in ops /\ now' = now

\* C11: get_item(id) returns the item most recently returned by a successful
\* add_item or update_item for id when id has been created and not deleted,
\* and NotFound (naming id) otherwise; it changes neither the item map nor
\* the counter.
C11_GetReturnsLatest ==
    [][CallOf({"get_item"}) =>
          /\ IF last'.id \in DOMAIN latest
             THEN last'.result = Ok(latest[last'.id])
             ELSE /\ last'.result.tag = "NotFound"
                  /\ last'.result.arg = last'.id
          /\ UNCHANGED <<inventory, counter>>]_vars

\* get_item has returned an item that was updated after its creation, while
\* another id was already deleted.
C11_Witness ==
    /\ last.op = "get_item"
    /\ last.result.tag = "Ok"
    /\ last.id \in updated
    /\ deleted # {}

\* C12: delete_item(id) on a stored id returns Ok with the item that was
\* stored under id and removes it; a get_item(id) or a second delete_item(id)
\* that follows immediately returns NotFound.
C12_DeleteRemoves ==
    [][/\ (CallOf({"delete_item"}) /\ last'.id \in DOMAIN inventory) =>
             /\ last'.result = Ok(inventory[last'.id])
             /\ last'.id \notin DOMAIN inventory'
       /\ (/\ last.op = "delete_item"
           /\ last.result.tag = "Ok"
           /\ CallOf({"get_item", "delete_item"})
           /\ last'.id = last.id) =>
             last'.result.tag = "NotFound"]_vars

\* A delete_item(id) on an id deleted before has returned NotFound, while
\* another item is still stored.
C12_Witness ==
    /\ last.op = "delete_item"
    /\ last.result.tag = "NotFound"
    /\ last.id \in deleted
    /\ inventory # <<>>

\* A payload with a non-empty name, quantity > 0 and price > 0.
ValidPayloads ==
    {p \in Payloads :
        /\ p.name # ""
        /\ p.quantity > 0
        /\ F64Gt(p.price, F64(0))}

\* The call returned NotFound naming last'.id and left the item map and the
\* counter as they were.
NotFoundUntouched ==
    /\ last'.result.tag = "NotFound"
    /\ last'.result.arg = last'.id
    /\ UNCHANGED <<inventory, counter>>

\* C13: update_item with a valid payload, or delete_item, on an id that is
\* not in the store returns NotFound and leaves the item map and the counter
\* unchanged; update_item never creates an item.
C13_NotFoundKeepsState ==
    [][/\ (CallOf({"delete_item"}) /\ last'.id \notin DOMAIN inventory) =>
             NotFoundUntouched
       /\ (CallOf({"update_item"}) /\ last'.id \notin DOMAIN inventory) =>
             \/ NotFoundUntouched
             \/ ~\E p \in ValidPayloads : UpdateItem(last'.id, p)
       /\ CallOf({"update_item"}) => DOMAIN inventory' \subseteq DOMAIN inventory]_vars

\* update_item on a deleted id has returned NotFound while another item is
\* stored.
C13_Witness ==
    /\ last.op = "update_item"
    /\ last.result.tag = "NotFound"
    /\ last.id \in deleted
    /\ inventory # <<>>

\* C14: list_items returns, in strictly ascending id order, exactly one item
\* for each id created by a successful add_item and not deleted since, each
\* being the item its last successful add_item or update_item returned; it
\* changes neither the item map nor the counter.
C14_ListIsOrderedAndComplete ==
    [][CallOf({"list_items"}) =>
          LET items == last'.items
          IN  /\ \A i, j \in 1 .. Len(items) : i < j => items[i].id < items[j].id
              /\ {items[i].id : i \in 1 .. Len(items)} = DOMAIN latest
              /\ \A i \in 1 .. Len(items) : items[i] = latest[items[i].id]
              /\ UNCHANGED <<inventory, counter>>]_vars

\* list_items has returned two items, one of them updated since its creation.
C14_Witness ==
    /\ last.op = "list_items"
    /\ Len(last.items) >= 2
    /\ \E i \in 1 .. Len(last.items) : last.items[i].updated_at.some

\* C15: a restart between two calls leaves the counter and every stored item
\* as they were (the counter does not go back to 0), and an id allocated
\* afterwards differs from every id allocated before.
C15_RestartKeepsState ==
    [][/\ CallOf({"restart"}) => counter' = counter /\ inventory' = inventory
       /\ AddSucceeds =>
             \A i \in 1 .. Len(allocated) : allocated[i] # last'.result.item.id]_vars

\* The process has restarted with an item stored, an id deleted and the
\* counter above 0.
C15_Witness ==
    /\ last.op = "restart"
    /\ counter > 0
    /\ inventory # <<>>
    /\ deleted # {}

\* A payload that passes the three checks and whose name alone is longer than
\* MAX_SIZE bytes.
OversizePayloads == {p \in ValidPayloads : NameLen(p.name) > MAX_SIZE}

\* C16: an add_item whose payload is valid but whose record exceeds MAX_SIZE
\* ends in a failure the caller sees and stores nothing; the counter is
\* rolled back or the id is skipped; no stored item is too large, and the
\* ids handed out stay pairwise distinct.
C16_OversizeAddFails ==
    [][/\ CallOf({"add_item"}) =>
             \/ /\ last'.result.tag = "Trap"
                /\ inventory' = inventory
                /\ counter' \in {counter, counter + 1}
             \/ ~\E p \in OversizePayloads : AddItem(p)
       /\ \A k \in DOMAIN inventory' : NameLen(inventory'[k].name) <= MAX_SIZE
       /\ \A i, j \in 1 .. Len(allocated') :
             i # j => allocated'[i] # allocated'[j]]_vars

\* An add_item has trapped on a store that holds an item, and the counter is
\* above 0.
C16_Witness ==
    /\ last.op = "add_item"
    /\ last.result.tag = "Trap"
    /\ counter > 0
    /\ inventory # <<>>

\* C17: for every item x, from_bytes(to_bytes(x)) equals x in id, name,
\* quantity, price, created_at and updated_at: the item read back is the item
\* that was written.
C17_RoundTrip ==
    last.op = "from_bytes" =>
        LET x == last.result.item
            y == inventory[last.id]
        IN  /\ y.id = x.id
            /\ y.name = x.name
            /\ y.quantity = x.quantity
            /\ y.price = x.price
            /\ y.created_at = x.created_at
            /\ y.updated_at = x.updated_at

\* An item with a name of more than 127 bytes, a NaN price and an updated_at
\* has been encoded and decoded.
C17_Witness ==
    /\ last.op = "from_bytes"
    /\ last.result.item.name = LongName
    /\ last.result.item.price.nan
    /\ last.result.item.updated_at.some
    /\ last.result.item.id > 0

\* The message of the earliest rule a rejected payload violates, the rules
\* taken in the order name, quantity, price.
FirstViolation(p) ==
    IF p.name = ""
    THEN "Name must be provided and non-empty"
    ELSE IF p.quantity = 0
    THEN "Quantity must be greater than zero"
    ELSE "Price must be greater than zero"

\* C19: add_item and update_item answer a payload that violates a rule with
\* the InvalidInput of the earliest violated rule (name, then quantity, then
\* price), and update_item does so whether or not the id is in the store: the
\* existence of the id is looked at only after the three checks have passed.
\* In every reachable state, each such call can be made and can end in no
\* other answer.
C19_ErrorPrecedence ==
    \A p \in RejectedPayloads :
        /\ ENABLED AddItem(p)
        /\ ~ENABLED (/\ AddItem(p)
                     /\ last'.result # InvalidInput(FirstViolation(p)))
        /\ \A id \in Ids :
               /\ ENABLED UpdateItem(id, p)
               /\ ~ENABLED (/\ UpdateItem(id, p)
                            /\ last'.result # InvalidInput(FirstViolation(p)))

\* update_item on an id that is not in the store, while another item is,
\* answered InvalidInput for the quantity.
C19_Witness ==
    /\ last.op = "update_item"
    /\ last.id \notin DOMAIN inventory
    /\ inventory # <<>>
    /\ last.result = InvalidInput("Quantity must be greater than zero")

\* C20: a successful add_item, update_item(id, ...) or delete_item(id)
\* changes the item map at one key only, the id it allocated or was given:
\* add_item and update_item leave the returned item there, delete_item
\* leaves nothing there, and every other key holds the item it held before.
C20_SingleRecordEffect ==
    [][(/\ CallOf({"add_item", "update_item", "delete_item"})
        /\ last'.result.tag = "Ok")
       => LET k == IF last'.op = "add_item" THEN last'.result.item.id ELSE last'.id
          IN  /\ \A j \in (DOMAIN inventory \cup DOMAIN inventory') \ {k} :
                     /\ j \in DOMAIN inventory
                     /\ j \in DOMAIN inventory'
                     /\ inventory'[j] = inventory[j]
              /\ IF last'.op = "delete_item"
                 THEN k \in DOMAIN inventory /\ k \notin DOMAIN inventory'
                 ELSE k \in DOMAIN inventory' /\ inventory'[k] = last'.result.item
              /\ last'.op = "update_item" => k \in DOMAIN inventory]_vars

\* update_item has succeeded on a store that holds two items.
C20_Witness ==
    /\ last.op = "update_item"
    /\ last.result.tag = "Ok"
    /\ Cardinality(DOMAIN inventory) >= 2

\* C18: when the counter holds u64::MAX, an add_item with a valid payload
\* ends in a failure; it does not leave the counter at a smaller value and
\* does not return an id that was already allocated.
C18_OverflowIsNotSilent ==
    [][(/\ Overflows(counter)
        /\ CallOf({"add_item"})
        /\ \E p \in ValidPayloads : AddItem(p))
       => /\ last'.result.tag # "Ok"
          /\ counter' >= counter
          /\ \A i \in 1 .. Len(allocated) :
                 last'.result.tag = "Ok" => last'.result.item.id # allocated[i]]_vars

====
